---- MODULE Spec2Model ----
(***************************************************************************)
(* generate_user_activity_report (src/source.py): filtering of user        *)
(* records by age and activity status, filtering of each surviving user's  *)
(* activities by a caller-supplied predicate, and rendering of the         *)
(* surviving data into report entries.                                     *)
(*                                                                         *)
(* Python values are represented as follows.                               *)
(*   str            a TLA+ string                                          *)
(*   dict           a function whose domain is the set of keys present     *)
(*   list, tuple    a sequence                                             *)
(*   datetime       a record [year, month, day, hour]                      *)
(*   User           a record with the six attributes of the class          *)
(*   None           the value None below                                   *)
(*   a call         a record [kind |-> "return", value |-> v] when the     *)
(*                  call returns v, [kind |-> "raise", error |-> e] when   *)
(*                  it raises e                                            *)
(***************************************************************************)
EXTENDS Integers, Sequences, FiniteSets, TLC

VARIABLES
    users,      \* the caller's list of User objects
    min_age,    \* the caller's age threshold
    options,    \* the caller's options object (None or a dict) of the last call
    result,     \* how the last call ended
    trace,      \* what the last call read and invoked, in order
    hist,       \* the calls completed so far: what was passed, how it ended
    budget      \* the number of calls the caller still makes

vars == <<users, min_age, options, result, trace, hist, budget>>

(***************************************************************************)
(* Bounds of the model.                                                    *)
(***************************************************************************)
MaxUsers == 2        \* users in the input list
MaxActs == 2         \* activity records in the input, all users together

(***************************************************************************)
(* Python values.                                                          *)
(***************************************************************************)
None == [none |-> TRUE]

EmptyDict == [k \in {} |-> TRUE]

Return(v) == [kind |-> "return", value |-> v]

Raise(e) == [kind |-> "raise", error |-> e]

KeyError(key) == [type |-> "KeyError", arg |-> key]

ValueError(n) == [type |-> "ValueError", arg |-> IF n < 3 THEN "not enough values to unpack" ELSE "too many values to unpack"]

\* dict.get(key, default)
get(d, key, default) == IF key \in DOMAIN d THEN d[key] ELSE default

\* One thing the call did: a read of a user's attribute or address key, or an
\* invocation of activity_filter or format_activity on activity j of user i.
Event(op, i, j, key) == [op |-> op, user |-> i, activity |-> j, key |-> key]

\* Variant of UserRole: the name of the member for its value.
UserRoleNames == [ADMIN |-> "ADMIN", USER |-> "USER", GUEST |-> "GUEST"]

(***************************************************************************)
(* class UserRole(Enum): the members and their values.                     *)
(***************************************************************************)
UserRole == [ADMIN |-> "Admin", USER |-> "User", GUEST |-> "Guest"]

User(name, age, active, role, address, activities) ==
    [name |-> name, age |-> age, active |-> active, role |-> role,
     address |-> address, activities |-> activities]

datetime(year, month, day, hour) == [year |-> year, month |-> month, day |-> day, hour |-> hour]

(***************************************************************************)
(* datetime.strftime for the directives %Y, %m and %d: the year on four    *)
(* digits, the month and the day on two, zero-padded; every other token    *)
(* of the format is copied, and the hour is not rendered. (Years are       *)
(* taken in 1000..9999.)                                                   *)
(***************************************************************************)
Digit(n) == <<"0", "1", "2", "3", "4", "5", "6", "7", "8", "9">>[n + 1]

RECURSIVE ZeroPad(_, _)
ZeroPad(n, width) ==
    IF width = 0 THEN "" ELSE ZeroPad(n \div 10, width - 1) \o Digit(n % 10)

Directive(date, tok) ==
    CASE tok = "%Y" -> ZeroPad(date.year, 4)
      [] tok = "%m" -> ZeroPad(date.month, 2)
      [] tok = "%d" -> ZeroPad(date.day, 2)
      [] OTHER -> tok

RECURSIVE strftime(_, _)
strftime(date, fmt) ==
    IF fmt = <<>> THEN "" ELSE Directive(date, Head(fmt)) \o strftime(date, Tail(fmt))

\* '%Y-%m-%d'
DateFormat == <<"%Y", "-", "%m", "-", "%d">>

(***************************************************************************)
(* Variants of format_activity: the day before the month; a record that    *)
(* is not a triple rendered without its date instead of raising.           *)
(***************************************************************************)
format_activity_day_first(activity) ==
    IF Len(activity) # 3
    THEN Raise(ValueError(Len(activity)))
    ELSE Return(activity[1] \o " performed " \o activity[2] \o " on "
                    \o strftime(activity[3], <<"%Y", "-", "%d", "-", "%m">>))

format_activity_lenient(activity) ==
    IF Len(activity) # 3
    THEN Return(activity[1] \o " performed " \o activity[2])
    ELSE Return(activity[1] \o " performed " \o activity[2] \o " on "
                    \o strftime(activity[3], DateFormat))

(***************************************************************************)
(* format_activity: unpack the activity into three, render the sentence.   *)
(***************************************************************************)
format_activity(activity) ==
    IF Len(activity) # 3
    THEN Raise(ValueError(Len(activity)))
    ELSE LET username == activity[1]
             action == activity[2]
             date == activity[3]
         IN  Return(username \o " performed " \o action \o " on " \o strftime(date, DateFormat))

(***************************************************************************)
(* The activity filters a caller passes. AcceptAll is the lambda x: True   *)
(* of the default; NotLogout is the filter of the example usage,           *)
(* lambda activity: activity[1] != "logout".                               *)
(***************************************************************************)
AcceptAll == "lambda x: True"

NotLogout == "lambda activity: activity[1] != 'logout'"

Apply(f, activity) ==
    IF f = NotLogout THEN activity[2] # "logout" ELSE TRUE

\* Variant of Condition: include_inactive lets a user through whatever the age.
ConditionInactiveAnyAge(user, i, m, include_inactive) ==
    LET age == Event("age", i, 0, "")
        active == Event("active", i, 0, "")
    IN  IF include_inactive THEN [value |-> TRUE, trace |-> <<>>]
        ELSE IF ~(user.age >= m) THEN [value |-> FALSE, trace |-> <<age>>]
        ELSE [value |-> user.active, trace |-> <<age, active>>]

(***************************************************************************)
(* The condition of the outer comprehension (line 147),                    *)
(*   user.age >= min_age and (include_inactive or user.active)             *)
(* evaluated left to right with Python's short circuit.                    *)
(***************************************************************************)
Condition(user, i, m, include_inactive) ==
    LET age == Event("age", i, 0, "")
        active == Event("active", i, 0, "")
    IN  IF ~(user.age >= m) THEN [value |-> FALSE, trace |-> <<age>>]
        ELSE IF include_inactive THEN [value |-> TRUE, trace |-> <<age>>]
        ELSE [value |-> user.active, trace |-> <<age, active>>]

(***************************************************************************)
(* The f-string of line 142: the three subscripts in the order street,     *)
(* city, country; the first key that is absent raises KeyError.            *)
(***************************************************************************)
AddressKeys == <<"street", "city", "country">>

\* Variant of address_fstring: address.get(key, "") for address[key].
address_fstring_get(address, i) ==
    [outcome |-> Return(get(address, "street", "") \o ", " \o get(address, "city", "")
                            \o ", " \o get(address, "country", "")),
     trace |-> [k \in 1..Len(AddressKeys) |-> Event("address", i, 0, AddressKeys[k])]]

address_fstring(address, i) ==
    LET absent == {k \in DOMAIN AddressKeys : AddressKeys[k] \notin DOMAIN address}
        first == CHOOSE k \in absent : \A l \in absent : k <= l
        last == IF absent = {} THEN Len(AddressKeys) ELSE first
    IN  [outcome |->
            IF absent = {}
            THEN Return(address["street"] \o ", " \o address["city"] \o ", " \o address["country"])
            ELSE Raise(KeyError(AddressKeys[first])),
         trace |-> [k \in 1..last |-> Event("address", i, 0, AddressKeys[k])]]

(***************************************************************************)
(* The inner comprehension of lines 143-145, from activity j on:           *)
(*   [format_activity(activity) for activity in user.activities            *)
(*    if activity_filter(activity)]                                        *)
(***************************************************************************)
RECURSIVE activities_comprehension(_, _, _, _)
activities_comprehension(activities, activity_filter, i, j) ==
    IF j > Len(activities) THEN [outcome |-> Return(<<>>), trace |-> <<>>]
    ELSE
        LET activity == activities[j]
            filtered == <<Event("activity_filter", i, j, "")>>
            formatted == <<Event("format_activity", i, j, "")>>
            rest == activities_comprehension(activities, activity_filter, i, j + 1)
        IN  IF ~Apply(activity_filter, activity)
            THEN [outcome |-> rest.outcome, trace |-> filtered \o rest.trace]
            ELSE
                LET s == format_activity(activity)
                IN  IF s.kind = "raise"
                    THEN [outcome |-> s, trace |-> filtered \o formatted]
                    ELSE [outcome |->
                              IF rest.outcome.kind = "raise" THEN rest.outcome
                              ELSE Return(<<s.value>> \o rest.outcome.value),
                          trace |-> filtered \o formatted \o rest.trace]

(***************************************************************************)
(* The dict display of lines 137-146 for user i: the values in the order   *)
(* written, so the address is built before the activities are.             *)
(***************************************************************************)
entry(user, i, activity_filter) ==
    LET address == address_fstring(user.address, i)
        activities == activities_comprehension(user.activities, activity_filter, i, 1)
    IN  IF address.outcome.kind = "raise" THEN address
        ELSE IF activities.outcome.kind = "raise"
        THEN [outcome |-> activities.outcome, trace |-> address.trace \o activities.trace]
        ELSE [outcome |->
                  Return([name |-> user.name,
                          age |-> user.age,
                          active |-> user.active,
                          role |-> UserRole[user.role],
                          address |-> address.outcome.value,
                          activities |-> activities.outcome.value]),
              trace |-> address.trace \o activities.trace]

(***************************************************************************)
(* Variants of filtered_users: a user whose list of rendered activities is *)
(* empty is left out; the entry of every user is built before the          *)
(* condition is looked at.                                                 *)
(***************************************************************************)
RECURSIVE filtered_users_with_activities(_, _, _, _, _)
filtered_users_with_activities(us, m, include_inactive, activity_filter, i) ==
    IF i > Len(us) THEN [outcome |-> Return(<<>>), trace |-> <<>>]
    ELSE
        LET c == Condition(us[i], i, m, include_inactive)
        IN  IF ~c.value
            THEN LET rest == filtered_users_with_activities(
                                 us, m, include_inactive, activity_filter, i + 1)
                 IN  [outcome |-> rest.outcome, trace |-> c.trace \o rest.trace]
            ELSE
                LET e == entry(us[i], i, activity_filter)
                IN  IF e.outcome.kind = "raise"
                    THEN [outcome |-> e.outcome, trace |-> c.trace \o e.trace]
                    ELSE
                        LET rest == filtered_users_with_activities(
                                        us, m, include_inactive, activity_filter, i + 1)
                            this == IF e.outcome.value.activities = <<>> THEN <<>>
                                    ELSE <<e.outcome.value>>
                        IN  [outcome |->
                                 IF rest.outcome.kind = "raise" THEN rest.outcome
                                 ELSE Return(this \o rest.outcome.value),
                             trace |-> c.trace \o e.trace \o rest.trace]

RECURSIVE filtered_users_eager(_, _, _, _, _)
filtered_users_eager(us, m, include_inactive, activity_filter, i) ==
    IF i > Len(us) THEN [outcome |-> Return(<<>>), trace |-> <<>>]
    ELSE
        LET e == entry(us[i], i, activity_filter)
            c == Condition(us[i], i, m, include_inactive)
        IN  IF e.outcome.kind = "raise"
            THEN [outcome |-> e.outcome, trace |-> e.trace]
            ELSE
                LET rest == filtered_users_eager(us, m, include_inactive, activity_filter, i + 1)
                    this == IF c.value THEN <<e.outcome.value>> ELSE <<>>
                IN  [outcome |->
                         IF rest.outcome.kind = "raise" THEN rest.outcome
                         ELSE Return(this \o rest.outcome.value),
                     trace |-> e.trace \o c.trace \o rest.trace]

(***************************************************************************)
(* The outer comprehension of lines 136-148, from user i on. An exception  *)
(* in an entry ends the comprehension: the list built so far is dropped.   *)
(***************************************************************************)
RECURSIVE filtered_users(_, _, _, _, _)
filtered_users(us, m, include_inactive, activity_filter, i) ==
    IF i > Len(us) THEN [outcome |-> Return(<<>>), trace |-> <<>>]
    ELSE
        LET c == Condition(us[i], i, m, include_inactive)
        IN  IF ~c.value
            THEN LET rest == filtered_users(us, m, include_inactive, activity_filter, i + 1)
                 IN  [outcome |-> rest.outcome, trace |-> c.trace \o rest.trace]
            ELSE
                LET e == entry(us[i], i, activity_filter)
                IN  IF e.outcome.kind = "raise"
                    THEN [outcome |-> e.outcome, trace |-> c.trace \o e.trace]
                    ELSE
                        LET rest == filtered_users(us, m, include_inactive, activity_filter, i + 1)
                        IN  [outcome |->
                                 IF rest.outcome.kind = "raise" THEN rest.outcome
                                 ELSE Return(<<e.outcome.value>> \o rest.outcome.value),
                             trace |-> c.trace \o e.trace \o rest.trace]

(***************************************************************************)
(* Variants of read_options: include_inactive defaults to True; the two    *)
(* settings are read with dict.setdefault, which writes the default into   *)
(* the caller's dict.                                                      *)
(***************************************************************************)
read_options_include_default(o) ==
    LET opts == IF o = None THEN EmptyDict ELSE o
    IN  [include_inactive |-> get(opts, "include_inactive", TRUE),
         activity_filter |-> get(opts, "activity_filter", AcceptAll),
         caller |-> o]

read_options_setdefault(o) ==
    LET opts == IF o = None THEN EmptyDict ELSE o
        written == [k \in {"include_inactive", "activity_filter"} |->
                        IF k \in DOMAIN opts THEN opts[k]
                        ELSE IF k = "include_inactive" THEN FALSE ELSE AcceptAll]
    IN  [include_inactive |-> written["include_inactive"],
         activity_filter |-> written["activity_filter"],
         caller |-> IF o = None THEN o ELSE written]

(***************************************************************************)
(* Lines 131-134: the local options is a fresh dict when None was passed,  *)
(* and the two settings are read with dict.get, which leaves the dict as   *)
(* it is. caller is the caller's options object afterwards.                *)
(***************************************************************************)
read_options(o) ==
    LET opts == IF o = None THEN EmptyDict ELSE o
    IN  [include_inactive |-> get(opts, "include_inactive", FALSE),
         activity_filter |-> get(opts, "activity_filter", AcceptAll),
         caller |-> o]

(***************************************************************************)
(* Variant of generate_user_activity_report: the list of entries outlives  *)
(* the call, so that a call adds its entries to those of the call before.  *)
(***************************************************************************)
generate_user_activity_report_accumulating(us, m, o) ==
    LET opts == read_options(o)
        r == filtered_users(us, m, opts.include_inactive, opts.activity_filter, 1)
        kept == IF hist # <<>> /\ hist[Len(hist)].result.kind = "return"
                THEN hist[Len(hist)].result.value ELSE <<>>
    IN  [outcome |-> IF r.outcome.kind = "return" THEN Return(kept \o r.outcome.value)
                     ELSE r.outcome,
         trace |-> r.trace, users |-> us, options |-> opts.caller]

(***************************************************************************)
(* generate_user_activity_report(users, min_age, options): how the call    *)
(* ends, what it did, and the caller's objects afterwards.                 *)
(***************************************************************************)
generate_user_activity_report(us, m, o) ==
    LET opts == read_options(o)
        r == filtered_users(us, m, opts.include_inactive, opts.activity_filter, 1)
    IN  [outcome |-> r.outcome, trace |-> r.trace, users |-> us, options |-> opts.caller]

(***************************************************************************)
(* The inputs. Samples are the three users of the example usage (lines     *)
(* 153-178), without age and active flag, which are drawn from Ages and    *)
(* BOOLEAN; Bob's address also has a key the report does not read.         *)
(***************************************************************************)
Samples ==
    {[name |-> "Alice", role |-> "ADMIN",
      address |-> [street |-> "123 Main St", city |-> "Metropolis", country |-> "USA"],
      activities |-> <<<<"Alice", "login", datetime(2023, 1, 1, 0)>>,
                       <<"Alice", "purchase", datetime(2023, 2, 15, 0)>>>>],
     [name |-> "Bob", role |-> "USER",
      address |-> [street |-> "456 Elm St", city |-> "Gotham", country |-> "USA", zip |-> "10001"],
      activities |-> <<<<"Bob", "logout", datetime(2023, 3, 22, 0)>>>>],
     [name |-> "Charlie", role |-> "GUEST",
      address |-> [street |-> "789 Oak St", city |-> "Star City", country |-> "USA"],
      activities |-> <<<<"Charlie", "login", datetime(2023, 4, 10, 0)>>>>]}

Ages == {17, 18}

MinAges == {17, 18}

UserPool ==
    {User(s.name, age, active, s.role, s.address, s.activities) :
        s \in Samples, age \in Ages, active \in BOOLEAN}

\* The lists of at most n elements of S.
Lists(S, n) == UNION {[1..k -> S] : k \in 0..n}

(***************************************************************************)
(* The inputs of the second specification: users of one name and role      *)
(* whose addresses may lack keys and whose activities may be malformed     *)
(* (a pair instead of a triple).                                           *)
(***************************************************************************)
Addresses ==
    {[street |-> "456 Elm St", city |-> "Gotham", country |-> "USA"],
     [street |-> "456 Elm St"]}

ActivityPool ==
    {<<"Bob", "login", datetime(2023, 1, 1, 9)>>,
     <<"Bob", "logout", datetime(2023, 12, 31, 23)>>,
     <<"Bob", "logout">>}

RECURSIVE Total(_)
Total(ls) == IF ls = <<>> THEN 0 ELSE Len(Head(ls)) + Total(Tail(ls))

(***************************************************************************)
(* The options a caller passes: None, or a dict with any of the two keys.  *)
(***************************************************************************)
Dicts ==
    {[k \in K |-> IF k = "include_inactive" THEN b ELSE f] :
        K \in SUBSET {"include_inactive", "activity_filter"},
        b \in BOOLEAN, f \in {AcceptAll, NotLogout}}

NoResult == [kind |-> "none"]

Init ==
    /\ users \in Lists(UserPool, MaxUsers)
    /\ min_age \in MinAges
    /\ options = None
    /\ result = NoResult
    /\ trace = <<>>
    /\ hist = <<>>
    /\ budget = 2

InitActs ==
    /\ \E n \in 0..MaxUsers :
         \E as \in [1..n -> Lists(ActivityPool, MaxActs)] :
            /\ Total(as) <= MaxActs
            /\ \E age \in [1..n -> Ages], active \in [1..n -> BOOLEAN],
                  address \in [1..n -> Addresses] :
                 users = [k \in 1..n |->
                            User("Bob", age[k], active[k], "USER", address[k], as[k])]
    /\ min_age = 18
    /\ options = None
    /\ result = NoResult
    /\ trace = <<>>
    /\ hist = <<>>
    /\ budget = 1

(***************************************************************************)
(* The caller calls generate_user_activity_report(users, min_age, o).      *)
(***************************************************************************)
Invoke(o) ==
    /\ budget > 0
    /\ LET r == generate_user_activity_report(users, min_age, o)
       IN  /\ result' = r.outcome
           /\ trace' = r.trace
           /\ users' = r.users
           /\ options' = r.options
           /\ hist' = Append(hist, [options |-> o, result |-> r.outcome])
    /\ budget' = budget - 1
    /\ UNCHANGED min_age

\* generate_user_activity_report(users, min_age, {...})
Call == \E o \in Dicts : Invoke(o)

\* generate_user_activity_report(users, min_age)
CallDefault == Invoke(None)

Next == Call \/ CallDefault

Spec == Init /\ [][Next]_vars

SpecActs == InitActs /\ [][Next]_vars

(***************************************************************************)
(* What the specification says of a call, stated on the caller's inputs.   *)
(***************************************************************************)
\* The settings of a call: a field that is not supplied has its default.
IncludeInactive(o) ==
    IF o = None THEN FALSE
    ELSE IF "include_inactive" \in DOMAIN o THEN o["include_inactive"] ELSE FALSE

Accepts(o, activity) ==
    IF o = None THEN TRUE
    ELSE IF "activity_filter" \in DOMAIN o THEN Apply(o["activity_filter"], activity) ELSE TRUE

Qualifies(u, o) == u.age >= min_age /\ (IncludeInactive(o) \/ u.active)

\* The positions of the qualifying users, in input order.
Qualifying(o) ==
    SelectSeq([i \in 1..Len(users) |-> i], LAMBDA i : Qualifies(users[i], o))

Malformed(activity) == Len(activity) # 3

LacksKey(u) == {"street", "city", "country"} \ DOMAIN u.address # {}

\* The accepted activities of user u, in their order.
Kept(u, o) == SelectSeq(u.activities, LAMBDA a : Accepts(o, a))

HasKeptMalformed(u, o) == \E j \in DOMAIN u.activities :
    Accepts(o, u.activities[j]) /\ Malformed(u.activities[j])

TwoDigits(n) == Digit(n \div 10) \o Digit(n % 10)

\* "<actor> performed <action> on <YYYY-MM-DD>"
Sentence(a) ==
    a[1] \o " performed " \o a[2] \o " on " \o TwoDigits(a[3].year \div 100)
        \o TwoDigits(a[3].year % 100) \o "-" \o TwoDigits(a[3].month) \o "-" \o TwoDigits(a[3].day)

\* Who the entries of a report are.
Persons(report) == [k \in DOMAIN report |-> <<report[k].name, report[k].age, report[k].active>>]

Called == result.kind # "none"

Returned == result.kind = "return"

Raised == result.kind = "raise"

(***************************************************************************)
(* C1: the users of the report are exactly the users with age >= min_age   *)
(* and (include_inactive or active), each once, in input order; a user     *)
(* below min_age is absent also when include_inactive is set.              *)
(***************************************************************************)
QualifyingUsersInOrder ==
    Returned =>
        LET q == Qualifying(options)
        IN  /\ Len(result.value) = Len(q)
            /\ \A k \in DOMAIN q :
                 /\ result.value[k].name = users[q[k]].name
                 /\ result.value[k].age = users[q[k]].age
                 /\ result.value[k].active = users[q[k]].active
            /\ \A k \in DOMAIN result.value :
                 /\ result.value[k].age >= min_age
                 /\ result.value[k].active \/ IncludeInactive(options)

QualifyingUsersInOrderWitness ==
    /\ Returned
    /\ Len(users) = 2
    /\ IncludeInactive(options)
    /\ users[1].age < min_age
    /\ users[2].age >= min_age /\ ~users[2].active
    /\ users[1].name = users[2].name
    /\ Persons(result.value) = <<<<users[2].name, users[2].age, FALSE>>>>

(***************************************************************************)
(* C2: the activity filter does not decide who is in the report: calls     *)
(* that differ in the filter only report the same users in the same order, *)
(* and a qualifying user none of whose activities is accepted is reported  *)
(* with an empty list of activities.                                       *)
(***************************************************************************)
FilterKeepsUsers ==
    /\ \A a, b \in DOMAIN hist :
         /\ IncludeInactive(hist[a].options) = IncludeInactive(hist[b].options)
         /\ hist[a].result.kind = "return"
         /\ hist[b].result.kind = "return"
         => Persons(hist[a].result.value) = Persons(hist[b].result.value)
    /\ Returned =>
         LET q == Qualifying(options)
         IN  /\ Len(result.value) = Len(q)
             /\ \A k \in DOMAIN q :
                  Kept(users[q[k]], options) = <<>> => result.value[k].activities = <<>>

FilterKeepsUsersWitness ==
    /\ Len(hist) = 2
    /\ hist[1].result.kind = "return"
    /\ hist[2].result.kind = "return"
    /\ hist[1].options # None
    /\ hist[2].options # None
    /\ DOMAIN hist[1].options = {"activity_filter"}
    /\ DOMAIN hist[2].options = {"activity_filter"}
    /\ hist[1].options["activity_filter"] = AcceptAll
    /\ hist[2].options["activity_filter"] = NotLogout
    /\ Len(result.value) = 2
    /\ hist[1].result.value[1].activities # <<>>
    /\ result.value[1].activities = <<>>
    /\ result.value[2].activities # <<>>

(***************************************************************************)
(* C3: the activities of an entry are the user's accepted activities, in   *)
(* their order, each rendered as                                           *)
(* "<actor> performed <action> on <YYYY-MM-DD>".                           *)
(***************************************************************************)
ActivitiesRendered ==
    Returned =>
        LET q == Qualifying(options)
        IN  /\ Len(result.value) = Len(q)
            /\ \A k \in DOMAIN q :
                 LET kept == Kept(users[q[k]], options)
                 IN  result.value[k].activities = [j \in DOMAIN kept |-> Sentence(kept[j])]

ActivitiesRenderedWitness ==
    /\ Returned
    /\ options # None
    /\ get(options, "activity_filter", AcceptAll) = NotLogout
    /\ Len(result.value) = 1
    /\ Len(users[Qualifying(options)[1]].activities) = 2
    /\ Malformed(users[Qualifying(options)[1]].activities[1])
    /\ result.value[1].activities = <<"Bob performed login on 2023-01-01">>

(***************************************************************************)
(* C4: a field of options that is not supplied stands for its default,     *)
(* include_inactive = False and a filter that accepts everything: calls    *)
(* whose options differ in that only end alike, and a call without         *)
(* options reports no inactive user.                                       *)
(***************************************************************************)
Explicit(o) ==
    [include_inactive |-> IncludeInactive(o),
     activity_filter |-> IF o = None THEN AcceptAll ELSE get(o, "activity_filter", AcceptAll)]

DefaultsAreFalseAndAcceptAll ==
    /\ \A a, b \in DOMAIN hist :
         hist[a].options # hist[b].options /\ Explicit(hist[a].options) = Explicit(hist[b].options)
         => hist[a].result = hist[b].result
    /\ \A a \in DOMAIN hist :
         hist[a].options = None /\ hist[a].result.kind = "return"
         => \A k \in DOMAIN hist[a].result.value : hist[a].result.value[k].active

DefaultsAreFalseAndAcceptAllWitness ==
    /\ Len(hist) = 2
    /\ hist[1].options = None
    /\ hist[2].options = [include_inactive |-> FALSE, activity_filter |-> AcceptAll]
    /\ Len(users) = 2
    /\ users[1].age >= min_age /\ ~users[1].active
    /\ users[2].age >= min_age /\ users[2].active
    /\ Returned
    /\ Persons(result.value) = <<<<users[2].name, users[2].age, TRUE>>>>

(***************************************************************************)
(* C5, as claimed: when a qualifying user's address lacks street, city or  *)
(* country, the call raises KeyError and returns no report.                *)
(***************************************************************************)
MissingAddressKeyRaisesKeyError ==
    Called /\ (\E i \in DOMAIN users : Qualifies(users[i], options) /\ LacksKey(users[i]))
    => Raised /\ result.error.type = "KeyError"

(***************************************************************************)
(* C5, amended: when a qualifying user's address lacks street, city or     *)
(* country, the call raises and returns no report, whatever entries were   *)
(* built before; it raises KeyError for the first absent key of the first  *)
(* such user unless an earlier qualifying user has an accepted activity    *)
(* that is malformed, whose error is then the one raised.                  *)
(***************************************************************************)
FirstLacking(o) ==
    CHOOSE i \in DOMAIN users :
        /\ Qualifies(users[i], o) /\ LacksKey(users[i])
        /\ \A l \in 1..(i - 1) : ~(Qualifies(users[l], o) /\ LacksKey(users[l]))

FirstAbsentKey(u) ==
    IF "street" \notin DOMAIN u.address THEN "street"
    ELSE IF "city" \notin DOMAIN u.address THEN "city" ELSE "country"

MissingAddressKeyFailsCall ==
    Called /\ (\E i \in DOMAIN users : Qualifies(users[i], options) /\ LacksKey(users[i]))
    => /\ Raised
       /\ DOMAIN result = {"kind", "error"}
       /\ LET i == FirstLacking(options)
          IN  IF \E l \in 1..(i - 1) :
                    Qualifies(users[l], options) /\ HasKeptMalformed(users[l], options)
              THEN result.error.type = "ValueError"
              ELSE result.error = [type |-> "KeyError", arg |-> FirstAbsentKey(users[i])]

MissingAddressKeyFailsCallWitness ==
    /\ Raised
    /\ Len(users) = 2
    /\ Qualifies(users[1], options) /\ ~LacksKey(users[1])
    /\ Len(users[1].activities) = 1 /\ ~Malformed(users[1].activities[1])
    /\ Accepts(options, users[1].activities[1])
    /\ Qualifies(users[2], options) /\ LacksKey(users[2])
    /\ result.error = [type |-> "KeyError", arg |-> "city"]

(***************************************************************************)
(* C6, as claimed: whenever the input contains an activity that is not a   *)
(* triple, the call raises and returns no report.                          *)
(***************************************************************************)
MalformedActivityRaises ==
    Called /\ (\E i \in DOMAIN users : \E j \in DOMAIN users[i].activities :
                  Malformed(users[i].activities[j]))
    => Raised

(***************************************************************************)
(* C6, amended: whenever a qualifying user has an activity that the        *)
(* filter accepts and that is not a triple, the call raises and returns    *)
(* no report; the error is the unpacking error unless the address of that  *)
(* user or of an earlier qualifying user lacks a key.                      *)
(***************************************************************************)
FirstMalformed(o) ==
    CHOOSE i \in DOMAIN users :
        /\ Qualifies(users[i], o) /\ HasKeptMalformed(users[i], o)
        /\ \A l \in 1..(i - 1) : ~(Qualifies(users[l], o) /\ HasKeptMalformed(users[l], o))

KeptMalformedActivityRaises ==
    Called /\ (\E i \in DOMAIN users : Qualifies(users[i], options) /\ HasKeptMalformed(users[i], options))
    => /\ Raised
       /\ DOMAIN result = {"kind", "error"}
       /\ LET i == FirstMalformed(options)
          IN  IF \E l \in 1..i : Qualifies(users[l], options) /\ LacksKey(users[l])
              THEN result.error.type = "KeyError"
              ELSE result.error.type = "ValueError"

KeptMalformedActivityRaisesWitness ==
    /\ Raised
    /\ Len(users) = 2
    /\ Qualifies(users[1], options) /\ users[1].activities # <<>>
    /\ ~HasKeptMalformed(users[1], options)
    /\ Qualifies(users[2], options) /\ HasKeptMalformed(users[2], options)
    /\ result.error.type = "ValueError"

(***************************************************************************)
(* C7: an entry has the user's name, age and active flag (a boolean), the  *)
(* label of the user's role, and the address "<street>, <city>,            *)
(* <country>"; the other keys of the address do not show.                  *)
(***************************************************************************)
Label(role) ==
    CASE role = "ADMIN" -> "Admin" [] role = "USER" -> "User" [] role = "GUEST" -> "Guest"

EntryFields ==
    Returned =>
        LET q == Qualifying(options)
        IN  /\ Len(result.value) = Len(q)
            /\ \A k \in DOMAIN q :
                 LET e == result.value[k]
                     u == users[q[k]]
                 IN  /\ DOMAIN e = {"name", "age", "active", "role", "address", "activities"}
                     /\ e.name = u.name
                     /\ e.age = u.age
                     /\ e.active \in BOOLEAN /\ e.active = u.active
                     /\ e.role = Label(u.role)
                     /\ e.address = u.address["street"] \o ", " \o u.address["city"]
                                        \o ", " \o u.address["country"]

EntryFieldsWitness ==
    /\ Returned
    /\ Len(result.value) = 2
    /\ result.value[1].role = "User"
    /\ result.value[1].address = "456 Elm St, Gotham, USA"
    /\ "zip" \in DOMAIN users[Qualifying(options)[1]].address
    /\ result.value[1].active = FALSE
    /\ result.value[2].role = "Admin"
    /\ result.value[2].address = "123 Main St, Metropolis, USA"

(***************************************************************************)
(* C8: a call, returning or raising, leaves the caller's users, threshold  *)
(* and options as they were passed; no key is added to the options.        *)
(***************************************************************************)
InputsUnchanged ==
    [][/\ users' = users
       /\ min_age' = min_age
       /\ options' = hist'[Len(hist')].options]_vars

InputsUnchangedWitness ==
    /\ Raised
    /\ users # <<>>
    /\ options # None
    /\ DOMAIN options = {"activity_filter"}
    /\ hist[Len(hist)].options = options

RECURSIVE FilterCallsFrom(_, _)
FilterCallsFrom(q, k) ==
    IF k > Len(q) THEN <<>>
    ELSE [j \in DOMAIN users[q[k]].activities |-> <<q[k], j>>] \o FilterCallsFrom(q, k + 1)

FilterCalls ==
    LET f == SelectSeq(trace, LAMBDA e : e.op = "activity_filter")
    IN  [n \in DOMAIN f |-> <<f[n].user, f[n].activity>>]

NonQualifyingUsersUntouched ==
    Called =>
        LET q == Qualifying(options)
            expected == FilterCallsFrom(q, 1)
        IN  /\ \A n \in DOMAIN trace :
                 ~Qualifies(users[trace[n].user], options) => trace[n].op \in {"age", "active"}
            /\ Len(FilterCalls) <= Len(expected)
            /\ FilterCalls = SubSeq(expected, 1, Len(FilterCalls))
            /\ Returned => FilterCalls = expected
            /\ (\A i \in DOMAIN users :
                    LacksKey(users[i]) \/ (\E j \in DOMAIN users[i].activities :
                                              Malformed(users[i].activities[j]))
                    => ~Qualifies(users[i], options))
               => Returned /\ Len(result.value) = Len(q)

NonQualifyingUsersUntouchedWitness ==
    /\ Returned
    /\ Len(users) = 2
    /\ ~Qualifies(users[1], options) /\ users[1].age >= min_age
    /\ LacksKey(users[1])
    /\ Len(users[1].activities) = 1 /\ Malformed(users[1].activities[1])
    /\ Accepts(options, users[1].activities[1])
    /\ Qualifies(users[2], options) /\ Len(users[2].activities) = 1
    /\ FilterCalls = <<<<2, 1>>>>
    /\ Len(result.value) = 1

====
